---- MODULE Spec2Model ----
(***************************************************************************)
(* A model of create_chroots.py: the topology builder of main(), the       *)
(* materializer (build_chroot / write_zonefile), the process orchestrator  *)
(* (kill_running_nameservers, configure_ips, start_nameservers) and the    *)
(* update driver (nsupdate_loop).                                          *)
(*                                                                         *)
(* Python strings are sequences of one-character strings, so that the     *)
(* '%d' formatting of names and addresses is computed, not assumed.        *)
(* Python objects live in heaps keyed by an object identity; an attribute  *)
(* that holds a list holds a reference into a heap of lists, so that two   *)
(* attributes bound to the same list object alias each other.              *)
(***************************************************************************)
EXTENDS Integers, Sequences, FiniteSets, TLC

(* ------------------------------ bounds --------------------------------- *)

MaxZones == 2
MaxRecords == 1
MaxXfr == 1
MaxResolvers == 2
MaxSub == 1
MaxRecursiveArg == 1
MaxRunExtra == 2
MaxCycles == 2

(* ------------------------- program constants --------------------------- *)

DefaultRecursiveCount == 1
Refresh == 60
Retry == 30
Expire == 300
NegativeTtl == 5
SettleSeconds == 5

(* ------------------------------ strings -------------------------------- *)

Digits == <<"0", "1", "2", "3", "4", "5", "6", "7", "8", "9">>

RECURSIVE Dec(_)
\* '%d' % n for n >= 0
Dec(n) == IF n < 10 THEN <<Digits[n + 1]>>
          ELSE Dec(n \div 10) \o <<Digits[(n % 10) + 1]>>

Dot == <<".">>
S_master == <<"m", "a", "s", "t", "e", "r">>
S_xfr == <<"x", "f", "r">>
S_resolver == <<"r", "e", "s", "o", "l", "v", "e", "r">>
S_sub == <<"s", "u", "b">>
S_root == <<"r", "o", "o", "t">>
S_recursive == <<"r", "e", "c", "u", "r", "s", "i", "v", "e">>
S_zone == <<"z", "o", "n", "e">>
S_com == <<".", "c", "o", "m">>
S_test == <<"t", "e", "s", "t">>
S_dotzone == <<".", "z", "o", "n", "e">>
S_dbcache == <<"d", "b", ".", "c", "a", "c", "h", "e">>

Ip_127_1_1_1 == <<"1", "2", "7", ".", "1", ".", "1", ".", "1">>
Ip_127_1_1_2 == <<"1", "2", "7", ".", "1", ".", "1", ".", "2">>
Pfx_127_2_2 == <<"1", "2", "7", ".", "2", ".", "2">>
Pfx_127_3_3 == <<"1", "2", "7", ".", "3", ".", "3">>
Pfx_127_4_4 == <<"1", "2", "7", ".", "4", ".", "4">>
Pfx_127_5_5 == <<"1", "2", "7", ".", "5", ".", "5">>

\* '%s%d' % (prefix, i)
NsName(prefix, i) == prefix \o Dec(i)

\* '%s.%d' % (prefix, i + 1)
RoleIp(prefix, i) == prefix \o Dot \o Dec(i + 1)

\* 'zone%d.com' % i
ZoneName(i) == S_zone \o Dec(i) \o S_com

\* 'sub.zone%d.com' % i
SubZoneName(i) == S_sub \o Dot \o S_zone \o Dec(i) \o S_com

\* ['test%d' % i for i in xrange(record_count)]
TestRecords(n) == [k \in 1..n |-> S_test \o Dec(k - 1)]

StartsWith(s, p) == Len(s) >= Len(p) /\ SubSeq(s, 1, Len(p)) = p

Range(s) == {s[k] : k \in DOMAIN s}

(* --------------------------- configuration ----------------------------- *)

None == "None"
NamedPath == "/usr/sbin/named"
NsupdatePath == "/usr/bin/nsupdate"

\* --recursive-ns-count has no type=int: the default is the integer 1, a value
\* given on the command line stays the string argparse read.
RecursiveCountArgs ==
    {[kind |-> "int", val |-> DefaultRecursiveCount]}
    \cup {[kind |-> "str", val |-> n] : n \in 0..MaxRecursiveArg}

AllArgs ==
    [zone_count : 0..MaxZones,
     record_count : 0..MaxRecords,
     xfr_count : 0..MaxXfr,
     resolver_count : 0..MaxResolvers,
     subdomain_resolver_count : 0..MaxSub,
     recursive_ns_count : RecursiveCountArgs,
     master_ip : {Ip_127_1_1_1},
     root_ns_ip : {Ip_127_1_1_2, Ip_127_1_1_1},
     xfr_ip_prefix : {Pfx_127_2_2},
     resolver_ip_prefix : {Pfx_127_3_3, Pfx_127_2_2},
     subdomain_resolver_ip_prefix : {Pfx_127_4_4},
     recursive_ns_prefix : {Pfx_127_5_5},
     ns_path : {None, NamedPath},
     nsupdate_path : {None, NsupdatePath},
     no_chroots : BOOLEAN]

\* The runs that start processes or submit updates are explored for the
\* default addresses and a bounded number of secondaries and resolvers.
RunShape(a) ==
    /\ a.zone_count >= 1
    /\ a.record_count = 1
    /\ a.recursive_ns_count.kind = "int"
    /\ a.root_ns_ip = Ip_127_1_1_2
    /\ a.resolver_ip_prefix = Pfx_127_3_3
    /\ a.xfr_count + a.resolver_count + a.subdomain_resolver_count <= MaxRunExtra

\* The chroot switch matters to the start commands only, and one address
\* option at a time is moved off its default.
BuildShape(a) ==
    /\ a.ns_path = None => ~a.no_chroots
    /\ a.root_ns_ip = Ip_127_1_1_2 \/ a.resolver_ip_prefix = Pfx_127_3_3

Configs ==
    {a \in AllArgs :
        /\ BuildShape(a)
        /\ (a.ns_path # None \/ a.nsupdate_path # None) => RunShape(a)}

(* -------------------------------- state -------------------------------- *)

VARIABLES
    args,          \* the parsed command line
    pc,            \* position in main()
    exc,           \* the exception that ended the run, or "none"
    nameservers,   \* heap of Nameserver objects
    zones,         \* heap of zone objects
    ns_lists,      \* heap of lists of nameservers
    zone_lists,    \* heap of lists of zones
    record_lists,  \* heap of test_records lists
    dirs,          \* directories on disk
    files,         \* files on disk
    fslog,         \* filesystem operations, in order
    cmdlog,        \* killall, sleep and ifconfig, in order
    todo,          \* entries of os.listdir('chroots') not yet started
    starts,        \* nameserver start commands attempted, with their count
    updates,       \* update transactions submitted, in order
    current_value, \* nsupdate_loop's counter
    i,             \* index of the nameserver loop in progress
    j              \* index of the zone loop in progress

vars == <<args, pc, exc, nameservers, zones, ns_lists, zone_lists, record_lists,
          dirs, files, fslog, cmdlog, todo, starts, updates, current_value, i, j>>

heap == <<nameservers, zones, ns_lists, zone_lists, record_lists>>
disk == <<dirs, files, fslog>>
procs == <<cmdlog, todo, starts, updates, current_value>>

(* ------------------------------- objects ------------------------------- *)

NoRef == <<"None", "", 0>>
NoId == <<"None", 0>>
Local(name) == <<name, "", 0>>
Own(attr, id) == <<attr, id[1], id[2]>>
RecordsRef(id) == <<"test_records", id[1], id[2]>>

master_ns == <<"master", 0>>
root_ns == <<"root", 0>>

Ids(role, n) == {<<role, k>> : k \in 0..(n - 1)}
IdSeq(role, n) == [k \in 1..n |-> <<role, k - 1>>]

\* Nameserver.__init__ and AuthNameserver.__init__
AuthNameserver(id, name, ip, use_chroot) ==
    [cls |-> "AuthNameserver", name |-> name, ip |-> ip, use_chroot |-> use_chroot,
     zones |-> Own("zones", id), delegated_zones |-> Own("delegated_zones", id),
     root_ns_ip |-> <<>>]

\* RecursiveNameserver.__init__
RecursiveNameserver(name, ip, use_chroot, root_ns_ip) ==
    [cls |-> "RecursiveNameserver", name |-> name, ip |-> ip,
     use_chroot |-> use_chroot, zones |-> NoRef, delegated_zones |-> NoRef,
     root_ns_ip |-> root_ns_ip]

\* The two empty lists AuthNameserver.__init__ allocates for each object
OwnLists(ids) ==
    [r \in {Own("zones", id) : id \in ids}
           \cup {Own("delegated_zones", id) : id \in ids} |-> <<>>]

\* MasterZone.__init__
MasterZone(name, auth_nameservers, test_records) ==
    [cls |-> "MasterZone", name |-> name, auth_nameservers |-> auth_nameservers,
     master_ips |-> <<>>, refresh |-> Refresh, retry |-> Retry, expire |-> Expire,
     negative_ttl |-> NegativeTtl, test_records |-> test_records, root_ns |-> NoId]

\* RootZone.__init__: no call of MasterZone.__init__
RootZone(ns) ==
    [cls |-> "RootZone", name |-> Dot, auth_nameservers |-> None,
     master_ips |-> <<>>, refresh |-> 0, retry |-> 0, expire |-> 0,
     negative_ttl |-> 0, test_records |-> NoRef, root_ns |-> ns]

\* SlaveZone.__init__ (StubZone inherits it)
SlaveZone(cls, name, master_ips) ==
    [cls |-> cls, name |-> name, auth_nameservers |-> None,
     master_ips |-> master_ips, refresh |-> 0, retry |-> 0, expire |-> 0,
     negative_ttl |-> 0, test_records |-> NoRef, root_ns |-> NoId]

\* [ns.ip for ns in ...]
IpsOf(nss, ids) == [k \in DOMAIN ids |-> nss[ids[k]].ip]

(* -------------------------------- Init --------------------------------- *)

\* What a previous run left behind in the working directory.
StaleDirs == {<<"chroots">>, <<"chroots", S_master>>}
StaleFiles == {<<"chroots", S_master, "var", "named", "named9.conf">>}

Init ==
    /\ args \in Configs
    /\ pc = "validate"
    /\ exc = "none"
    /\ nameservers = <<>>
    /\ zones = <<>>
    /\ ns_lists = <<>>
    /\ zone_lists = <<>>
    /\ record_lists = <<>>
    /\ \E stale \in BOOLEAN :
         /\ dirs = IF stale THEN StaleDirs ELSE {}
         /\ files = IF stale THEN StaleFiles ELSE {}
    /\ fslog = <<>>
    /\ cmdlog = <<>>
    /\ todo = {}
    /\ starts = <<>>
    /\ updates = <<>>
    /\ current_value = 0
    /\ i = 0
    /\ j = 0

(* ----------------------------- the builder ----------------------------- *)

\* (variant: the record count is not validated)
ConfigErrorZonesOnly(a) == a.zone_count < 1

\* main, lines 245-248
ConfigError(a) == a.zone_count < 1 \/ a.record_count < 1

Raise(e) == pc' = "exit" /\ exc' = e

Validate ==
    /\ pc = "validate"
    /\ IF ConfigError(args) THEN Raise("ValueError")
       ELSE pc' = "build_auth" /\ exc' = exc
    /\ UNCHANGED <<args, heap, disk, procs, i, j>>

\* main, lines 255-273
BuildAuthNameservers ==
    /\ pc = "build_auth"
    /\ LET use_chroot == ~args.no_chroots
           xfrs == IdSeq("xfr", args.xfr_count)
           resolvers == IdSeq("resolver", args.resolver_count)
           ids == {master_ns} \cup Range(xfrs) \cup Range(resolvers)
       IN /\ nameservers' =
                [id \in ids |->
                    CASE id[1] = "master" ->
                           AuthNameserver(id, S_master, args.master_ip, use_chroot)
                      [] id[1] = "xfr" ->
                           AuthNameserver(id, NsName(S_xfr, id[2]),
                                          RoleIp(args.xfr_ip_prefix, id[2]), use_chroot)
                      [] id[1] = "resolver" ->
                           AuthNameserver(id, NsName(S_resolver, id[2]),
                                          RoleIp(args.resolver_ip_prefix, id[2]),
                                          use_chroot)]
          /\ zone_lists' = OwnLists(ids)
          /\ ns_lists' = ("xfrs" :> xfrs) @@ ("resolvers" :> resolvers)
                         @@ ("auth_nameservers" :> (<<master_ns>> \o xfrs \o resolvers))
    /\ pc' = "build_master_zones"
    /\ UNCHANGED <<args, exc, zones, record_lists, disk, procs, i, j>>

\* main, lines 275-284
BuildMasterZones ==
    /\ pc = "build_master_zones"
    /\ LET ids == Ids("master", args.zone_count)
       IN /\ zones' = [id \in ids |->
                          MasterZone(ZoneName(id[2]), "auth_nameservers", RecordsRef(id))]
          /\ record_lists' = [r \in {RecordsRef(id) : id \in ids} |->
                                 TestRecords(args.record_count)]
          /\ zone_lists' = zone_lists
                           @@ (Local("master_zones") :> IdSeq("master", args.zone_count))
          /\ nameservers' = [nameservers EXCEPT ![master_ns].zones = Local("master_zones")]
    /\ pc' = "build_xfr_zones"
    /\ UNCHANGED <<args, exc, ns_lists, disk, procs, i, j>>

\* main, lines 286-290
BuildXfrZones ==
    /\ pc = "build_xfr_zones"
    /\ LET ids == Ids("xfr", args.zone_count)
       IN /\ zones' = zones @@
                [id \in ids |->
                    SlaveZone("SlaveZone", ZoneName(id[2]), <<nameservers[master_ns].ip>>)]
          /\ zone_lists' = zone_lists
                           @@ (Local("xfr_zones") :> IdSeq("xfr", args.zone_count))
          /\ nameservers' = [id \in DOMAIN nameservers |->
                                IF id \in Range(ns_lists["xfrs"])
                                THEN [nameservers[id] EXCEPT !.zones = Local("xfr_zones")]
                                ELSE nameservers[id]]
    /\ pc' = "build_resolver_zones"
    /\ UNCHANGED <<args, exc, ns_lists, record_lists, disk, procs, i, j>>

\* main, lines 292-296: every resolver is bound to the one list resolver_zones
BuildResolverZones ==
    /\ pc = "build_resolver_zones"
    /\ LET ids == Ids("resolver", args.zone_count)
       IN /\ zones' = zones @@
                [id \in ids |->
                    SlaveZone("SlaveZone", ZoneName(id[2]),
                              IpsOf(nameservers, ns_lists["xfrs"]))]
          /\ zone_lists' = zone_lists
                           @@ (Local("resolver_zones")
                                 :> IdSeq("resolver", args.zone_count))
          /\ nameservers' = [id \in DOMAIN nameservers |->
                                IF id \in Range(ns_lists["resolvers"])
                                THEN [nameservers[id] EXCEPT
                                        !.zones = Local("resolver_zones")]
                                ELSE nameservers[id]]
    /\ pc' = "build_subdomain"
    /\ UNCHANGED <<args, exc, ns_lists, record_lists, disk, procs, i, j>>

RECURSIVE ExtendEach(_, _, _, _)
\* for resolver in resolvers: resolver.zones.extend(stubs)
\* list.extend mutates the list object the attribute refers to
ExtendEach(zl, nss, resolvers, stubs) ==
    IF resolvers = <<>> THEN zl
    ELSE LET ref == nss[Head(resolvers)].zones
         IN ExtendEach([zl EXCEPT ![ref] = @ \o stubs], nss, Tail(resolvers), stubs)

\* main, lines 298-326
BuildSubdomain ==
    /\ pc = "build_subdomain"
    /\ IF args.subdomain_resolver_count > 0
       THEN LET use_chroot == ~args.no_chroots
                subdomain_resolvers == IdSeq("sub", args.subdomain_resolver_count)
                subs == Range(subdomain_resolvers)
                mids == Ids("submaster", args.zone_count)
                sids == Ids("stub", args.zone_count)
                nss == nameservers @@
                       [id \in subs |->
                           [AuthNameserver(id, NsName(S_sub, id[2]),
                                           RoleIp(args.subdomain_resolver_ip_prefix, id[2]),
                                           use_chroot)
                            EXCEPT !.zones = Local("master_subdomain_zones")]]
                zl == zone_lists @@ OwnLists(subs)
                      @@ (Local("master_subdomain_zones")
                            :> IdSeq("submaster", args.zone_count))
                      @@ (Local("subdomain_stubs") :> IdSeq("stub", args.zone_count))
            IN /\ nameservers' = nss
               /\ ns_lists' = ns_lists @@ ("subdomain_resolvers" :> subdomain_resolvers)
               /\ zones' = zones
                     @@ [id \in mids |->
                            MasterZone(SubZoneName(id[2]), "subdomain_resolvers",
                                       RecordsRef(id))]
                     @@ [id \in sids |->
                            SlaveZone("StubZone", SubZoneName(id[2]),
                                      IpsOf(nss, subdomain_resolvers))]
               /\ record_lists' = record_lists
                     @@ [r \in {RecordsRef(id) : id \in mids} |->
                            TestRecords(args.record_count)]
               /\ zone_lists' = ExtendEach(zl, nss, ns_lists["resolvers"],
                                           zl[Local("subdomain_stubs")])
       ELSE /\ ns_lists' = ns_lists @@ ("subdomain_resolvers" :> <<>>)
            /\ UNCHANGED <<nameservers, zones, record_lists, zone_lists>>
    /\ pc' = "build_root"
    /\ UNCHANGED <<args, exc, disk, procs, i, j>>

\* (variant: copy.copy(master_zones), a new list of the same zone objects)
ShallowCopyIds(ids) == ids

\* copy.deepcopy(master_zones): a new zone object for every element
DeepCopyIds(ids) == [k \in DOMAIN ids |-> <<"delegated", ids[k][2]>>]

\* main, lines 328-338
BuildRoot ==
    /\ pc = "build_root"
    /\ LET use_chroot == ~args.no_chroots
           master_zones == zone_lists[Local("master_zones")]
           delegated_zones == DeepCopyIds(master_zones)
           Orig(c) == master_zones[CHOOSE k \in DOMAIN master_zones :
                                      delegated_zones[k] = c]
           \* the copies: every attribute copied, the test_records list included
           copied == zones @@
                     [c \in Range(delegated_zones) |->
                         [zones[Orig(c)] EXCEPT !.test_records = RecordsRef(c)]]
           \* for z in delegated_zones: z.auth_nameservers = resolvers
           overridden == [z \in DOMAIN copied |->
                             IF z \in Range(delegated_zones)
                             THEN [copied[z] EXCEPT !.auth_nameservers = "resolvers"]
                             ELSE copied[z]]
       IN /\ nameservers' = nameservers @@
                (root_ns :> [AuthNameserver(root_ns, S_root, args.root_ns_ip, use_chroot)
                             EXCEPT !.zones = Local("root_zones"),
                                    !.delegated_zones = Local("delegated_zones")])
          /\ zones' = overridden @@ (<<"root", 0>> :> RootZone(root_ns))
          /\ record_lists' = record_lists @@
                [r \in {RecordsRef(c) : c \in Range(delegated_zones)} |->
                    LET c == CHOOSE d \in Range(delegated_zones) : RecordsRef(d) = r
                    IN record_lists[zones[Orig(c)].test_records]]
          /\ zone_lists' = zone_lists @@ OwnLists({root_ns})
                           @@ (Local("root_zones") :> <<<<"root", 0>>>>)
                           @@ (Local("delegated_zones") :> delegated_zones)
    /\ pc' = "build_recursive"
    /\ UNCHANGED <<args, exc, ns_lists, disk, procs, i, j>>

\* main, lines 340-346: xrange(args.recursive_ns_count) raises TypeError for a str
BuildRecursive ==
    /\ pc = "build_recursive"
    /\ IF args.recursive_ns_count.kind = "str"
       THEN /\ Raise("TypeError")
            /\ UNCHANGED <<nameservers, ns_lists>>
       ELSE LET n == args.recursive_ns_count.val
                ids == Ids("recursive", n)
            IN /\ nameservers' = nameservers @@
                     [id \in ids |->
                         RecursiveNameserver(NsName(S_recursive, id[2]),
                                             RoleIp(args.recursive_ns_prefix, id[2]),
                                             ~args.no_chroots, args.root_ns_ip)]
               /\ ns_lists' = ns_lists
                              @@ ("recursive_nameservers" :> IdSeq("recursive", n))
               /\ pc' = "clean"
               /\ exc' = exc
    /\ UNCHANGED <<args, zones, zone_lists, record_lists, disk, procs, i, j>>

(* --------------------------- the materializer -------------------------- *)

Under(path, root) == Len(path) >= Len(root) /\ SubSeq(path, 1, Len(root)) = root

Prefixes(path) == {SubSeq(path, 1, k) : k \in 1..Len(path)}

Parent(path) == SubSeq(path, 1, Len(path) - 1)

FsOp(op, path) == [op |-> op, path |-> path]

\* clean_existing_directories, lines 161-164
clean_existing_directories ==
    /\ pc = "clean"
    /\ IF <<"chroots">> \in dirs
       THEN /\ dirs' = {d \in dirs : ~Under(d, <<"chroots">>)}
            /\ files' = {f \in files : ~Under(f, <<"chroots">>)}
            /\ fslog' = Append(fslog, FsOp("rmtree", <<"chroots">>))
       ELSE UNCHANGED disk
    /\ pc' = "collect"
    /\ UNCHANGED <<args, exc, heap, procs, i, j>>

\* main, line 350
CollectNameservers ==
    /\ pc = "collect"
    /\ ns_lists' = ns_lists @@
          ("all_nameservers" :>
              (<<root_ns, master_ns>> \o ns_lists["xfrs"] \o ns_lists["resolvers"]
               \o ns_lists["subdomain_resolvers"] \o ns_lists["recursive_nameservers"]))
    /\ pc' = "build_dirs"
    /\ i' = 0
    /\ UNCHANGED <<args, exc, nameservers, zones, zone_lists, record_lists, disk,
                   procs, j>>

CurrentNs == nameservers[ns_lists["all_nameservers"][i + 1]]

NodeDir(name) == <<"chroots", name>>
ZonesDir(name) == <<"chroots", name, "var", "named", "zones">>
LogDir(name) == <<"chroots", name, "var", "log">>
ConfPath(name) == <<"chroots", name, "var", "named", "named9.conf">>
CachePath(name) == <<"chroots", name, "var", "named", "zones", S_dbcache>>
\* 'chroots/%s/var/named/zones/%s.zone' % (ns_name, self.name)
ZoneFilePath(ns_name, zone_name) ==
    <<"chroots", ns_name, "var", "named", "zones", zone_name \o S_dotzone>>

\* Nameserver.build_dirs, lines 20-23: the three os.makedirs in order
BuildDirsPaths(name) == <<NodeDir(name), ZonesDir(name), LogDir(name)>>

RECURSIVE MakeDirs(_, _, _)
\* os.makedirs of each path in turn; it raises when the leaf exists already
MakeDirs(ds, log, paths) ==
    IF paths = <<>> THEN [dirs |-> ds, log |-> log, ok |-> TRUE]
    ELSE IF Head(paths) \in ds THEN [dirs |-> ds, log |-> log, ok |-> FALSE]
    ELSE MakeDirs(ds \cup Prefixes(Head(paths)),
                  Append(log, FsOp("makedirs", Head(paths))), Tail(paths))

\* Nameserver.build_chroot, lines 36-37
BuildDirs ==
    /\ pc = "build_dirs"
    /\ LET r == MakeDirs(dirs, fslog, BuildDirsPaths(CurrentNs.name))
       IN /\ dirs' = r.dirs
          /\ fslog' = r.log
          /\ IF r.ok THEN pc' = "write_conf" /\ exc' = exc ELSE Raise("OSError")
    /\ UNCHANGED <<args, heap, files, procs, i, j>>

\* where main goes once every nameserver is built, lines 354-362
AfterMaterialize ==
    IF args.ns_path # None THEN "kill"
    ELSE IF args.nsupdate_path # None THEN "nsupdate_loop" ELSE "exit"

\* the for loop of main, lines 351-352
NextNameserver ==
    /\ i' = i + 1
    /\ j' = 0
    /\ pc' = IF i + 1 < Len(ns_lists["all_nameservers"]) THEN "build_dirs"
             ELSE AfterMaterialize

\* open(path, 'w') and write: it raises when the directory is missing
WriteFile(path) ==
    /\ Parent(path) \in dirs
    /\ files' = files \cup {path}
    /\ fslog' = Append(fslog, FsOp("write", path))
    /\ dirs' = dirs

\* Nameserver.build_chroot, lines 38-39
WriteConf ==
    /\ pc = "write_conf"
    /\ WriteFile(ConfPath(CurrentNs.name))
    /\ pc' = IF CurrentNs.cls = "RecursiveNameserver" THEN "write_cache"
             ELSE "write_zones"
    /\ j' = 0
    /\ UNCHANGED <<args, exc, heap, procs, i>>

\* RecursiveNameserver.build_chroot, lines 53-56
WriteDbCache ==
    /\ pc = "write_cache"
    /\ WriteFile(CachePath(CurrentNs.name))
    /\ NextNameserver
    /\ UNCHANGED <<args, exc, heap, procs>>

\* (variant: SlaveZone.write_zonefile writes like MasterZone's)
WritesZonefileAlways(z) == TRUE

\* which classes' write_zonefile writes a file: MasterZone's (inherited by
\* RootZone) does, SlaveZone's (inherited by StubZone) is `pass`
WritesZonefile(z) == z.cls \in {"MasterZone", "RootZone"}

\* AuthNameserver.build_chroot, lines 71-72, one zone of the loop
WriteZonefile ==
    /\ pc = "write_zones"
    /\ j < Len(zone_lists[CurrentNs.zones])
    /\ LET z == zones[zone_lists[CurrentNs.zones][j + 1]]
       IN IF WritesZonefile(z)
          THEN WriteFile(ZoneFilePath(CurrentNs.name, z.name))
          ELSE UNCHANGED disk
    /\ j' = j + 1
    /\ UNCHANGED <<args, pc, exc, heap, procs, i>>

\* AuthNameserver.build_chroot: the zone loop is over
ZonesWritten ==
    /\ pc = "write_zones"
    /\ j = Len(zone_lists[CurrentNs.zones])
    /\ NextNameserver
    /\ UNCHANGED <<args, exc, heap, disk, procs>>

(* -------------------------- command runner ----------------------------- *)

\* how subprocess.check_output ends: exit status 0, or CalledProcessError
Outcomes == {"ok", "nonzero"}

\* (variant: the except clause re-raises whatever the flag)
run_command_strict(rc, stop_on_failure) == rc = "nonzero"

\* run_command, lines 148-151: CalledProcessError is re-raised if stop_on_failure
run_command(rc, stop_on_failure) == rc = "nonzero" /\ stop_on_failure

\* (variant: the parameter defaults to False)
StopOnFailureTolerant == FALSE

\* run_command, line 140: the default of stop_on_failure
StopOnFailureDefault == TRUE

Cmd(cmd, idx, ip, rc) == [cmd |-> cmd, idx |-> idx, ip |-> ip, rc |-> rc]

(* ----------------------------- orchestrator ---------------------------- *)

\* kill_running_nameservers, lines 167-168
kill_running_nameservers ==
    /\ pc = "kill"
    /\ \E rc \in Outcomes :
         /\ cmdlog' = Append(cmdlog, Cmd("killall", 0, <<>>, rc))
         /\ IF run_command(rc, FALSE) THEN Raise("CalledProcessError")
            ELSE pc' = "settle" /\ exc' = exc
    /\ UNCHANGED <<args, heap, disk, todo, starts, updates, current_value, i, j>>

\* main, line 356
Settle ==
    /\ pc = "settle"
    /\ cmdlog' = Append(cmdlog, Cmd("sleep", SettleSeconds, <<>>, "ok"))
    /\ pc' = "configure_ips"
    /\ i' = 0
    /\ UNCHANGED <<args, exc, heap, disk, todo, starts, updates, current_value, j>>

\* (variant: every address is bound to lo:0)
IfconfigCommandFixedAlias(k, ns, rc) == Cmd("ifconfig", 0, ns.ip, rc)

\* 'ifconfig lo:%d %s' % (i, ns.ip)
IfconfigCommand(k, ns, rc) == Cmd("ifconfig", k, ns.ip, rc)

\* os.listdir('chroots')
ListChroots == {p[2] : p \in {q \in dirs \cup files : Len(q) = 2 /\ q[1] = "chroots"}}

\* configure_ips, lines 173-174, one nameserver of the loop
configure_ips ==
    /\ pc = "configure_ips"
    /\ \E rc \in Outcomes :
         /\ cmdlog' = Append(cmdlog, IfconfigCommand(i, CurrentNs, rc))
         /\ IF run_command(rc, StopOnFailureDefault)
            THEN Raise("CalledProcessError") /\ UNCHANGED <<i, todo>>
            ELSE /\ exc' = exc
                 /\ i' = i + 1
                 /\ IF i + 1 < Len(ns_lists["all_nameservers"])
                    THEN pc' = "configure_ips" /\ todo' = todo
                    ELSE pc' = "start" /\ todo' = ListChroots
    /\ UNCHANGED <<args, heap, disk, starts, updates, current_value, j>>

\* the command start_nameservers builds for a chroot, lines 180-187
StartCommand(chroot, use_chroots) == [scoped |-> use_chroots, chroot |-> chroot]

AfterStart == IF args.nsupdate_path # None THEN "nsupdate_loop" ELSE "exit"

\* start_nameservers, lines 179-187, one entry of os.listdir('chroots')
start_nameservers ==
    /\ pc = "start"
    /\ \E chroot \in todo, rc \in Outcomes :
         LET c == StartCommand(chroot, ~args.no_chroots)
         IN /\ starts' = IF c \in DOMAIN starts
                         THEN [starts EXCEPT ![c] = Append(@, rc)]
                         ELSE starts @@ (c :> <<rc>>)
            /\ todo' = todo \ {chroot}
            /\ IF run_command(rc, StopOnFailureDefault) THEN Raise("CalledProcessError")
               ELSE /\ exc' = exc
                    /\ pc' = IF todo' = {} THEN AfterStart ELSE "start"
    /\ UNCHANGED <<args, heap, disk, cmdlog, updates, current_value, i, j>>

(* ----------------------------- update driver --------------------------- *)

\* nsupdate_loop, line 192
EnterUpdateLoop ==
    /\ pc = "nsupdate_loop"
    /\ current_value' = 1
    /\ j' = 0
    /\ pc' = "update"
    /\ UNCHANGED <<args, exc, heap, disk, cmdlog, todo, starts, updates, i>>

\* (variant: new_value is rendered without the + 1)
TransactionSameValue(master, zone, value, rc) ==
    [master_ip |-> master.ip, zone |-> zone.name,
     old_value |-> value, new_value |-> value, rc |-> rc]

\* the transaction rendered from the nsupdate template, lines 199-204
Transaction(master, zone, value, rc) ==
    [master_ip |-> master.ip, zone |-> zone.name,
     old_value |-> value, new_value |-> value + 1, rc |-> rc]

\* nsupdate_loop, lines 198-207, one zone of the cycle
SubmitUpdate ==
    /\ pc = "update"
    /\ current_value <= MaxCycles
    /\ j < Len(zone_lists[Local("master_zones")])
    /\ \E rc \in Outcomes :
         /\ updates' = Append(updates,
                Transaction(nameservers[master_ns],
                            zones[zone_lists[Local("master_zones")][j + 1]],
                            current_value, rc))
         /\ IF run_command(rc, StopOnFailureDefault)
            THEN Raise("CalledProcessError") /\ j' = j
            ELSE pc' = pc /\ exc' = exc /\ j' = j + 1
    /\ UNCHANGED <<args, heap, disk, cmdlog, todo, starts, current_value, i>>

\* nsupdate_loop, lines 208-209: the cycle is over
EndCycle ==
    /\ pc = "update"
    /\ j = Len(zone_lists[Local("master_zones")])
    /\ current_value' = current_value + 1
    /\ j' = 0
    /\ UNCHANGED <<args, pc, exc, heap, disk, cmdlog, todo, starts, updates, i>>

(* ------------------- a client of the returned topology ----------------- *)

Mutations == {"name", "refresh", "auth_nameservers", "test_records.append",
              "auth_nameservers.append"}

\* Once main has returned, one mutation of one element of
\* root_ns.delegated_zones: an attribute assigned, or a list it holds changed
\* in place.
MutateDelegated ==
    /\ pc = "exit"
    /\ exc = "none"
    /\ \E k \in DOMAIN zone_lists[nameservers[root_ns].delegated_zones],
          m \in Mutations :
         LET z == zone_lists[nameservers[root_ns].delegated_zones][k]
         IN /\ zones' =
                 CASE m = "name" -> [zones EXCEPT ![z].name = S_test]
                   [] m = "refresh" -> [zones EXCEPT ![z].refresh = 0]
                   [] m = "auth_nameservers" ->
                        [zones EXCEPT ![z].auth_nameservers = "xfrs"]
                   [] OTHER -> zones
            /\ record_lists' =
                 IF m = "test_records.append"
                 THEN [record_lists EXCEPT ![zones[z].test_records] = Append(@, S_test)]
                 ELSE record_lists
            /\ ns_lists' =
                 IF m = "auth_nameservers.append"
                 THEN [ns_lists EXCEPT ![zones[z].auth_nameservers] = Append(@, root_ns)]
                 ELSE ns_lists
    /\ pc' = "mutated"
    /\ UNCHANGED <<args, exc, nameservers, zone_lists, disk, procs, i, j>>

(* ------------------------------ the program ---------------------------- *)

Next ==
    \/ Validate
    \/ BuildAuthNameservers
    \/ BuildMasterZones
    \/ BuildXfrZones
    \/ BuildResolverZones
    \/ BuildSubdomain
    \/ BuildRoot
    \/ BuildRecursive
    \/ clean_existing_directories
    \/ CollectNameservers
    \/ BuildDirs
    \/ WriteConf
    \/ WriteDbCache
    \/ WriteZonefile
    \/ ZonesWritten
    \/ kill_running_nameservers
    \/ Settle
    \/ configure_ips
    \/ start_nameservers
    \/ EnterUpdateLoop
    \/ SubmitUpdate
    \/ EndCycle
    \/ MutateDelegated

Spec == Init /\ [][Next]_vars

(* ------------------------------ properties ----------------------------- *)

BuilderPcs == {"validate", "build_auth", "build_master_zones", "build_xfr_zones",
               "build_resolver_zones", "build_subdomain", "build_root",
               "build_recursive"}

MaterializerPcs == {"clean", "collect", "build_dirs", "write_conf", "write_zones",
                    "write_cache"}

\* the builder has returned a topology, and no client has touched it
Built == pc \notin BuilderPcs \cup {"mutated"} /\ exc \notin {"ValueError", "TypeError"}

\* every nameserver of the topology is built on disk
Materialized == /\ pc \notin BuilderPcs \cup MaterializerPcs
                /\ exc \notin {"ValueError", "TypeError", "OSError"}

Orchestrated == args.ns_path # None

NodeNames == {nameservers[id].name : id \in Range(ns_lists["all_nameservers"])}

StartedChroots == {c.chroot : c \in DOMAIN starts}

AllOk(s) == \A k \in DOMAIN s : s[k] = "ok"

WritesTo(path) == Cardinality({k \in DOMAIN fslog : fslog[k] = FsOp("write", path)})

\* C1: the counter starts at 1 and grows by 1 per completed cycle; the k-th
\* transaction submitted is for zone (k-1) mod n of the target list, with
\* old value (k-1) div n + 1 and new value one more, so every cycle submits one
\* transaction per zone in list order with one (old, new) pair, the old value
\* of a cycle is the new value of the cycle before, and after k completed
\* cycles the last submitted new value is k + 1.
C1_UpdateCounter ==
    (updates # <<>> \/ pc = "update") =>
        LET zs == zone_lists[Local("master_zones")]
            n == Len(zs)
        IN /\ \A k \in 1..Len(updates) :
                LET cycle == (k - 1) \div n
                    pos == (k - 1) % n
                IN /\ updates[k].zone = zones[zs[pos + 1]].name
                   /\ updates[k].zone = ZoneName(pos)
                   /\ updates[k].master_ip = args.master_ip
                   /\ updates[k].old_value = cycle + 1
                   /\ updates[k].new_value = cycle + 2
           /\ pc = "update" =>
                /\ current_value >= 1
                /\ Len(updates) = (current_value - 1) * n + j
                /\ (j = 0 /\ current_value > 1) =>
                      updates[Len(updates)].new_value = current_value

C1_Witness ==
    /\ pc = "update"
    /\ current_value = 3
    /\ j = 0
    /\ Len(zone_lists[Local("master_zones")]) = 2
    /\ Len(updates) = 4
    /\ \A k \in DOMAIN updates : updates[k].rc = "ok"

\* C2: a failed update submission is the last one of the run: the run has
\* ended with the command's exception, the counter still has the value the
\* failed transaction was rendered from, and nothing was submitted after it.
C2_FatalUpdate ==
    \A k \in 1..Len(updates) :
        updates[k].rc # "ok" =>
            /\ k = Len(updates)
            /\ pc = "exit"
            /\ exc = "CalledProcessError"
            /\ current_value = updates[k].old_value

C2_Witness ==
    /\ pc = "exit"
    /\ exc = "CalledProcessError"
    /\ Len(updates) = 3
    /\ updates[3].rc = "nonzero"
    /\ updates[3].old_value = 2
    /\ Len(zone_lists[Local("master_zones")]) = 2

\* C3: with a nameserver binary given, the commands are: one killall, the
\* settle delay, then one ifconfig per node of all_nameservers in index order
\* (node i on alias i with its own address, aliases pairwise distinct); a
\* start is issued only when every bind is done, one per materialized node
\* directory; the update loop begins only when every node directory was
\* started. Without a binary, none of these commands is issued.
C3_OrchestratorOrder ==
    /\ ~Orchestrated => (cmdlog = <<>> /\ DOMAIN starts = {})
    /\ cmdlog # <<>> =>
         LET all == ns_lists["all_nameservers"]
         IN /\ Materialized
            /\ Len(cmdlog) <= Len(all) + 2
            /\ cmdlog[1].cmd = "killall"
            /\ Len(cmdlog) >= 2 => (cmdlog[2].cmd = "sleep" /\ cmdlog[2].idx = SettleSeconds)
            /\ \A k \in 3..Len(cmdlog) :
                  /\ cmdlog[k].cmd = "ifconfig"
                  /\ cmdlog[k].idx = k - 3
                  /\ cmdlog[k].ip = nameservers[all[k - 2]].ip
            /\ \A k1, k2 \in 3..Len(cmdlog) :
                  k1 # k2 => cmdlog[k1].idx # cmdlog[k2].idx
    /\ DOMAIN starts # {} =>
         /\ Len(cmdlog) = Len(ns_lists["all_nameservers"]) + 2
         /\ \A k \in 3..Len(cmdlog) : cmdlog[k].rc = "ok"
         /\ \A c \in DOMAIN starts :
               /\ Len(starts[c]) = 1
               /\ NodeDir(c.chroot) \in dirs
               /\ c.chroot \in NodeNames
               /\ c.scoped = ~args.no_chroots
    /\ (Orchestrated /\ (pc \in {"nsupdate_loop", "update"} \/ updates # <<>>
                         \/ (pc = "exit" /\ exc = "none"))) =>
         /\ StartedChroots = NodeNames
         /\ Cardinality(DOMAIN starts) = Len(ns_lists["all_nameservers"])
         /\ \A c \in DOMAIN starts : AllOk(starts[c])

C3_Witness ==
    /\ Orchestrated
    /\ updates # <<>>
    /\ Cardinality(StartedChroots) = 5
    /\ Len(cmdlog) = 7

\* C4: a failed killall is tolerated (the run goes on to the settle delay); a
\* failed ifconfig or a failed start ends the run with the command's
\* exception, with no command after it (no bind, no start, no update); and no
\* command is issued twice.
C4_FailureTolerance ==
    /\ \A k \in 1..Len(cmdlog) :
         cmdlog[k].rc # "ok" =>
            IF cmdlog[k].cmd = "killall"
            THEN /\ Len(cmdlog) = 1 => (pc = "settle" /\ exc = "none")
                 /\ exc = "none" \/ Len(cmdlog) > 2
            ELSE /\ k = Len(cmdlog)
                 /\ DOMAIN starts = {}
                 /\ updates = <<>>
                 /\ pc = "exit"
                 /\ exc = "CalledProcessError"
    /\ \A c \in DOMAIN starts :
         ~AllOk(starts[c]) =>
            /\ pc = "exit"
            /\ exc = "CalledProcessError"
            /\ updates = <<>>
            /\ \A d \in DOMAIN starts : d # c => AllOk(starts[d])
    /\ Cardinality({k \in DOMAIN cmdlog : cmdlog[k].cmd = "killall"}) <= 1
    /\ \A k1, k2 \in DOMAIN cmdlog :
         (k1 # k2 /\ cmdlog[k1].cmd = "ifconfig" /\ cmdlog[k2].cmd = "ifconfig") =>
            (cmdlog[k1].idx # cmdlog[k2].idx /\ cmdlog[k1].ip # cmdlog[k2].ip)
    /\ \A c \in DOMAIN starts : Len(starts[c]) = 1

C4_Witness ==
    /\ Len(cmdlog) = 6
    /\ cmdlog[1].rc = "nonzero"
    /\ pc = "exit"
    /\ exc = "none"
    /\ Cardinality(StartedChroots) = 4
    /\ \A c \in DOMAIN starts : AllOk(starts[c])

\* C5: in the topology the builder returns, with subdomain_resolver_count = 0
\* there is no StubZone and no zone name beginning with 'sub.', and with
\* subdomain_resolver_count > 0 the zone set of every top-level resolver holds
\* exactly zone_count StubZones, one per name sub.zone<i>.com, besides its
\* zone_count SlaveZones.
C5_StubZones ==
    Built =>
        /\ args.subdomain_resolver_count = 0 =>
              \A z \in DOMAIN zones :
                  /\ zones[z].cls # "StubZone"
                  /\ ~StartsWith(zones[z].name, <<"s", "u", "b", ".">>)
        /\ args.subdomain_resolver_count > 0 =>
              \A r \in Range(ns_lists["resolvers"]) :
                  LET zl == zone_lists[nameservers[r].zones]
                      stubs == {k \in DOMAIN zl : zones[zl[k]].cls = "StubZone"}
                      slaves == {k \in DOMAIN zl : zones[zl[k]].cls = "SlaveZone"}
                  IN /\ Cardinality(stubs) = args.zone_count
                     /\ {zones[zl[k]].name : k \in stubs}
                          = {SubZoneName(n) : n \in 0..(args.zone_count - 1)}
                     /\ Cardinality(slaves) = args.zone_count

\* C6: in the topology the builder returns, the zone names in the zones list
\* of every nameserver are pairwise distinct.
C6_UniqueZoneNames ==
    Built =>
        \A id \in DOMAIN nameservers :
            nameservers[id].cls = "AuthNameserver" =>
                LET zl == zone_lists[nameservers[id].zones]
                IN \A k1, k2 \in DOMAIN zl :
                      k1 # k2 => zones[zl[k1]].name # zones[zl[k2]].name

\* the original master zones, with the lists their attributes refer to
MasterView ==
    [m \in Range(zone_lists[Local("master_zones")]) |->
        [zone |-> zones[m],
         auth_nameservers |-> ns_lists[zones[m].auth_nameservers],
         test_records |-> record_lists[zones[m].test_records]]]

\* C7: once the builder has returned, the names of root_ns.delegated_zones are
\* the names of the master zones, every delegated zone's auth_nameservers is
\* the resolver list, every master zone's auth_nameservers is still master +
\* secondaries + resolvers, and a mutation of a delegated copy leaves every
\* master zone (its attributes and the lists they hold) as it was.
C7_DelegatedIsolation ==
    /\ [](Built =>
            LET ms == zone_lists[Local("master_zones")]
                ds == zone_lists[nameservers[root_ns].delegated_zones]
            IN /\ {zones[d].name : d \in Range(ds)} = {zones[m].name : m \in Range(ms)}
               /\ Len(ds) = args.zone_count
               /\ \A d \in Range(ds) :
                     /\ ns_lists[zones[d].auth_nameservers] = ns_lists["resolvers"]
                     /\ ns_lists[zones[d].auth_nameservers]
                          = IdSeq("resolver", args.resolver_count)
               /\ \A m \in Range(ms) :
                     ns_lists[zones[m].auth_nameservers]
                       = <<master_ns>> \o IdSeq("xfr", args.xfr_count)
                         \o IdSeq("resolver", args.resolver_count))
    /\ [][pc' = "mutated" => MasterView' = MasterView]_vars

C7_Witness ==
    /\ pc = "mutated"
    /\ args.resolver_count > 0
    /\ args.zone_count = 2
    /\ \E k \in DOMAIN zone_lists[Local("master_zones")] :
          /\ zones[zone_lists[Local("delegated_zones")][k]].name = S_test
          /\ zones[zone_lists[Local("master_zones")][k]].name = ZoneName(k - 1)

\* C8: once every node is built, each MasterZone or RootZone of a node's zone
\* set has exactly one file <node>/var/named/zones/<zone-name>.zone, written
\* once, each SlaveZone or StubZone has none, the zones directory of a
\* secondary holds no file, and a file is written into a node only after the
\* node's three directories were made.
C8_ZoneFiles ==
    /\ Materialized =>
         \A id \in Range(ns_lists["all_nameservers"]) :
            nameservers[id].cls = "AuthNameserver" =>
               LET ns == nameservers[id]
                   zl == zone_lists[ns.zones]
               IN /\ \A k \in DOMAIN zl :
                        LET z == zones[zl[k]]
                            path == ZoneFilePath(ns.name, z.name)
                        IN IF z.cls \in {"MasterZone", "RootZone"}
                           THEN path \in files /\ WritesTo(path) = 1
                           ELSE path \notin files /\ WritesTo(path) = 0
                  /\ {f \in files : Under(f, ZonesDir(ns.name))}
                       = {ZoneFilePath(ns.name, zones[zl[k]].name) :
                            k \in {n \in DOMAIN zl :
                                     zones[zl[n]].cls \in {"MasterZone", "RootZone"}}}
                  /\ id[1] = "xfr" => {f \in files : Under(f, ZonesDir(ns.name))} = {}
    /\ \A k \in DOMAIN fslog :
         fslog[k].op = "write" =>
            \A d \in Range(BuildDirsPaths(fslog[k].path[2])) :
               \E m \in 1..(k - 1) : fslog[m] = FsOp("makedirs", d)

C8_Witness ==
    /\ pc = "exit"
    /\ exc = "none"
    /\ args.xfr_count > 0
    /\ args.resolver_count > 0
    /\ args.subdomain_resolver_count > 0
    /\ Len(fslog) > 0
    /\ fslog[1].op = "rmtree"

\* C9: for a valid configuration the builder returns a topology with one
\* master, one root, xfr_count secondaries, resolver_count resolvers,
\* subdomain_resolver_count subdomain resolvers and recursive_ns_count
\* recursive resolvers, the i-th of a role at prefix.(i+1), all names pairwise
\* distinct and all addresses pairwise distinct.
C9_OnePerSlot ==
    (args.zone_count >= 1 /\ args.record_count >= 1
     /\ pc \notin BuilderPcs \cup {"mutated"}) =>
        LET Of(role) == {id \in DOMAIN nameservers : id[1] = role}
        IN /\ exc # "TypeError"
           /\ Cardinality(Of("master")) = 1
           /\ Cardinality(Of("root")) = 1
           /\ Cardinality(Of("xfr")) = args.xfr_count
           /\ Cardinality(Of("resolver")) = args.resolver_count
           /\ Cardinality(Of("sub")) = args.subdomain_resolver_count
           /\ Cardinality(Of("recursive")) = args.recursive_ns_count.val
           /\ nameservers[master_ns].ip = args.master_ip
           /\ nameservers[root_ns].ip = args.root_ns_ip
           /\ \A id \in Of("xfr") :
                 nameservers[id].ip = RoleIp(args.xfr_ip_prefix, id[2])
           /\ \A id \in Of("resolver") :
                 nameservers[id].ip = RoleIp(args.resolver_ip_prefix, id[2])
           /\ \A id \in Of("sub") :
                 nameservers[id].ip = RoleIp(args.subdomain_resolver_ip_prefix, id[2])
           /\ \A id \in Of("recursive") :
                 nameservers[id].ip = RoleIp(args.recursive_ns_prefix, id[2])
           /\ \A a, b \in DOMAIN nameservers :
                 a # b => /\ nameservers[a].name # nameservers[b].name
                          /\ nameservers[a].ip # nameservers[b].ip

====
